---- MODULE Spec2Model ----
(***************************************************************************)
(* Model of the knowledge-base synchronisation of                          *)
(* mdb-bedrock-action-groups: the S3 event handler of the ingest function, *)
(* MongoDBKnowledgeBase.handleEvent and the operations it calls, the       *)
(* chunk collection, the inventory collection and the sidecar objects.     *)
(*                                                                         *)
(* A store operation that the code awaits on its own is one atomic step    *)
(* (the handler does nothing between issuing it and its answer).  The two  *)
(* operations ingestObject issues together, and every operation that is    *)
(* issued and not (or no longer) awaited, are in flight until the store    *)
(* applies them, in any order.  An operation either takes effect as a      *)
(* whole or fails without effect.                                          *)
(***************************************************************************)
EXTENDS Integers, Sequences, FiniteSets, Bags, TLC

(***************************************************************************)
(* Bounds of the model.                                                    *)
(***************************************************************************)
\* Records handled in all (concurrent specification).
MaxEvents == 2
\* Records handled in all (one invocation at a time).
MaxSeqEvents == 2
\* Text segments of a document.
NSeg == 2

\* The concurrent invocations of the handler.
Invs == {1, 2}

(***************************************************************************)
(* Object keys.  A key is <base>.<ext>, with ".metadata.json" appended for *)
(* a sidecar; an address is s3://<bucket>/<key> of the one bucket, so the  *)
(* key stands for the address.                                             *)
(***************************************************************************)
Key(b, x, m) == [base |-> b, ext |-> x, meta |-> m]

DocKeys == {Key("a1", "pdf", FALSE), Key("a2", "pdf", FALSE)}

SidecarKeys == {Key("a1", "pdf", TRUE)}

OtherKeys == {Key("notes", "txt", FALSE)}

Keys == DocKeys \cup SidecarKeys \cup OtherKeys

ETags == {"e1", "e2"}

\* objectKey.endsWith(".metadata.json")
isMetadataFile(objectKey) == objectKey.meta

\* A variant that takes every key for a document.
isPdfAlways(objectKey) == TRUE

\* objectKey.endsWith(".pdf")
isPdf(objectKey) == ~objectKey.meta /\ objectKey.ext = "pdf"

\* objectKey.replace(/\.metadata\.json$/, "")
targetObjectKey(objectKey) == [objectKey EXCEPT !.meta = FALSE]

\* `${targetObjectKey}.metadata.json`
metadataObjectKey(objectKey) == [targetObjectKey(objectKey) EXCEPT !.meta = TRUE]

(***************************************************************************)
(* S3 event records.                                                       *)
(***************************************************************************)
Created(k, e) == [eventName |-> "ObjectCreated:Put", key |-> k, eTag |-> e]

Removed(k) == [eventName |-> "ObjectRemoved:Delete", key |-> k, eTag |-> "-"]

\* The records delivered: a1.pdf in two versions, in the version a store
\* that is not empty at the start holds, and removed; its sidecar, a second
\* document and a key that is no document.
Records ==
  {Created(Key("a1", "pdf", FALSE), e) : e \in ETags \cup {"e0"}}
    \cup {Removed(Key("a1", "pdf", FALSE))}
    \cup {Created(Key("a2", "pdf", FALSE), "e1")}
    \cup {Created(k, "e1") : k \in SidecarKeys \cup OtherKeys}

NoRecord == [eventName |-> "none", key |-> Key("-", "-", FALSE), eTag |-> "-"]

isRemoved(r) == r.eventName = "ObjectRemoved:Delete"

isCreated(r) == r.eventName = "ObjectCreated:Put"

(***************************************************************************)
(* Sidecar objects: what the bucket holds at <key>.metadata.json.          *)
(***************************************************************************)
OtherSource == Key("zz", "pdf", FALSE)

\* A JSON value of the attribute map.  To the update pipeline a string that
\* starts with "$" is the path of a field of the document; any other value
\* stands for itself.
Literal(x) == [type |-> "literal", value |-> x]

FieldPath(field) == [type |-> "path", value |-> field]

\* The value as the sidecar holds it.
jsonValue(v) == IF v.type = "path" THEN <<"$", v.value>> ELSE v.value

AttrMaps ==
  {[topic |-> Literal("t1")], [eTag |-> Literal("v9")],
   [source |-> Literal(OtherSource)], [ref |-> FieldPath("text")]}

Payloads ==
  {[kind |-> "absent"], [kind |-> "malformed"], [kind |-> "null"], [kind |-> "noattrs"]}
    \cup {[kind |-> "attrs", metadataAttributes |-> m] : m \in AttrMaps}

\* MetadataLoader.load: null, a thrown TypeError, or the attribute map.
load(payload) ==
  CASE payload.kind = "absent" -> [res |-> "null"]
    [] payload.kind = "malformed" -> [res |-> "null"]
    [] payload.kind = "noattrs" -> [res |-> "null"]
    [] payload.kind = "null" -> [res |-> "throw"]
    [] OTHER -> [res |-> "attrs", attrs |-> payload.metadataAttributes]

(***************************************************************************)
(* Chunks.  The collection is a bag: _id is assigned on insert and read    *)
(* nowhere, so chunks are told apart by content and counted.               *)
(***************************************************************************)
\* splitPdfFile: the text of segment s of the object's version.
pageContent(objectKey, objectEtag, s) == <<objectKey.base, objectEtag, s>>

\* getVectorEmbeddings: the vector the model gives a text.
getVectorEmbeddings(text) == <<"vector", text>>

ChunkDoc(objectKey, objectEtag, s) ==
  [text |-> pageContent(objectKey, objectEtag, s),
   embedding |-> getVectorEmbeddings(pageContent(objectKey, objectEtag, s)),
   metadata |-> [source |-> objectKey, eTag |-> objectEtag]]

\* loadAndSplit followed by generateForDocuments: the batch insertMany gets.
chunksWithVector(objectKey, objectEtag) ==
  SetToBag({ChunkDoc(objectKey, objectEtag, s) : s \in 1 .. NSeg})

RECURSIVE SumCopies(_, _)
SumCopies(B, S) ==
  IF S = {} THEN 0
  ELSE LET c == CHOOSE x \in S : TRUE
       IN B[c] + SumCopies(B, S \ {c})

\* The bag of g[c] for the elements c of B (g a function on DOMAIN B).
BagMap(B, g) ==
  LET img == {g[c] : c \in DOMAIN B}
  IN [d \in img |-> SumCopies(B, {c \in DOMAIN B : g[c] = d})]

\* deleteMany(filter): the documents the filter matches are removed.
deleteMany(B, matched) == [c \in DOMAIN B \ matched |-> B[c]]

\* updateMany(filter, pipeline): the documents the filter matches are
\* replaced by what the pipeline makes of them (update, a function on them).
updateMany(B, matched, update) ==
  BagMap(B, [c \in DOMAIN B |-> IF c \in matched THEN update[c] ELSE c])

\* The value of an expression of the update pipeline on a document.
expression(v, doc) == IF v.type = "path" THEN doc[v.value] ELSE v.value

\* {$addFields: {metadata: attrs}}: each field of attrs is set inside
\* metadata to the value of its expression; the other fields stay.
addFields(c, attrs) ==
  [c EXCEPT !.metadata =
     [k \in DOMAIN c.metadata \cup DOMAIN attrs |->
        IF k \in DOMAIN attrs THEN expression(attrs[k], c) ELSE c.metadata[k]]]

ChunksOf(B, a) == {c \in DOMAIN B : c.metadata.source = a}

(***************************************************************************)
(* Inventory entries.  findOneAndReplace stores the replacement document   *)
(* as a whole; updatedAt (the clock) is left out.                          *)
(***************************************************************************)
NoEntry == [status |-> "none"]

SuccessEntry(objectEtag) == [eTag |-> objectEtag, status |-> "success"]

RemovedEntry == [eTag |-> "0", status |-> "removed"]

ErrorEntry(objectEtag, text) ==
  [eTag |-> objectEtag, status |-> "fail", error |-> text]

(***************************************************************************)
(* State.                                                                  *)
(***************************************************************************)
VARIABLES
  chunks,     \* the chunk collection (a bag of ChunkDoc)
  inventory,  \* the inventory collection: address -> entry or NoEntry
  s3meta,     \* the sidecar objects of the bucket: sidecar key -> payload
  pending,    \* store operations in flight, each with the invocation awaiting it (0: none)
  pc,         \* where each invocation is
  ev,         \* the record each invocation handles
  out,        \* how the last handleEvent of each invocation ended
  err,        \* the error caught by handleEvent's try block
  nEvents,    \* records of the batches delivered so far
  hist,       \* per address, the outcomes of the last three events handled for it
  kb,         \* what the search indexes of the chunk collection answer to the query
  rpc,        \* where the retrieval call is
  req,        \* the retrieval call: its filters, k and weights
  results,    \* what hybridSearch has returned
  body,       \* the response body the retrieval handler has built
  mdbHybridRetriever, \* the retriever the retrieval module holds (0: undefined)
  clients,    \* store clients constructed in the retrieval process so far
  hpc,        \* where each call of the retrieval handler is in the process
  made,       \* the retriever each call's getHybridRetriever has built (0: none)
  nCalls      \* calls of the retrieval handler started so far

\* The retrieval module's lazily built retriever and the calls sharing it.
hvars == <<mdbHybridRetriever, clients, hpc, made, nCalls>>

\* The variables of the retrieval function.
rvars == <<kb, rpc, req, results, body, hvars>>

vars ==
  <<chunks, inventory, s3meta, pending, pc, ev, out, err, nEvents, hist, rvars>>

\* GetObject of a key: the sidecar object, or no such object.
s3Object(k) == IF k \in DOMAIN s3meta THEN s3meta[k] ELSE [kind |-> "absent"]

\* The last three entries of a history.
Recent(h) == IF Len(h) > 3 THEN SubSeq(h, Len(h) - 2, Len(h)) ELSE h

\* The address an event is about: the document's, also for its sidecar.
AddrOf(r) == targetObjectKey(r.key)

Outcome(r, o) == [eventName |-> r.eventName, meta |-> r.key.meta, eTag |-> r.eTag, out |-> o]

\* No chunk is in the search indexes, no retrieval call is made.
NoIndex == [docs |-> {}, vector |-> <<>>, text |-> <<>>]

NoRequest == [k |-> 0]

\* The version of a1.pdf a store that is not empty at the start holds.
PriorKey == Key("a1", "pdf", FALSE)

PriorETag == "e0"

\* Calls of the retrieval handler that one process may have under way at
\* the same time, and calls started in all.
NCallers == 2
MaxCalls == 4
Callers == 1 .. NCallers

\* `let mdbHybridRetriever: MongoDBHybridRetriever | undefined;` in a process
\* that has served no call yet.
ColdStart ==
  /\ mdbHybridRetriever = 0
  /\ clients = 0
  /\ hpc = [j \in Callers |-> "idle"]
  /\ made = [j \in Callers |-> 0]
  /\ nCalls = 0

\* The collections are empty, or hold a1.pdf as an earlier, successful
\* ingestion of it has left them.
Init ==
  /\ \/ /\ chunks = EmptyBag
        /\ inventory = [a \in Keys |-> NoEntry]
        /\ hist = [a \in Keys |-> <<>>]
     \/ /\ chunks = chunksWithVector(PriorKey, PriorETag)
        /\ inventory = [a \in Keys |-> IF a = PriorKey THEN SuccessEntry(PriorETag) ELSE NoEntry]
        /\ hist = [a \in Keys |->
                     IF a = PriorKey
                     THEN <<Outcome(Created(PriorKey, PriorETag), "success")>>
                     ELSE <<>>]
  /\ s3meta = [k \in SidecarKeys |-> [kind |-> "absent"]]
  /\ pending = EmptyBag
  /\ pc = [i \in Invs |-> "idle"]
  /\ ev = [i \in Invs |-> NoRecord]
  /\ out = [i \in Invs |-> "none"]
  /\ err = [i \in Invs |-> "none"]
  /\ nEvents = 0
  /\ kb = NoIndex
  /\ rpc = "idle"
  /\ req = NoRequest
  /\ results = <<>>
  /\ body = <<>>
  /\ ColdStart

\* handleEvent returns: the handler's loop goes on, with the next record of
\* the batch if there is one.
Return(i, o) ==
  /\ pc' = [pc EXCEPT ![i] = "loop"]
  /\ out' = [out EXCEPT ![i] = o]
  /\ err' = [err EXCEPT ![i] = "none"]
  /\ hist' = [hist EXCEPT ![AddrOf(ev[i])] = Recent(Append(@, Outcome(ev[i], o)))]

\* handleEvent throws: the handler rejects and the rest of the batch is dropped.
Throw(i) ==
  /\ pc' = [pc EXCEPT ![i] = "idle"]
  /\ out' = [out EXCEPT ![i] = "threw"]
  /\ err' = [err EXCEPT ![i] = "none"]
  /\ hist' = [hist EXCEPT ![AddrOf(ev[i])] = Recent(Append(@, Outcome(ev[i], "threw")))]

\* handleEvent goes on at l; e is the error its try block has caught.
Goto(i, l, e) ==
  /\ pc' = [pc EXCEPT ![i] = l]
  /\ err' = [err EXCEPT ![i] = e]
  /\ UNCHANGED <<out, hist>>

(***************************************************************************)
(* The handler: for (const record of event.Records) await handleEvent.     *)
(***************************************************************************)
\* The branch handleEvent takes for a record.
dispatch(r) ==
  IF isRemoved(r) THEN "removeObject"
  ELSE IF isCreated(r) /\ isMetadataFile(r.key) THEN "ingestMetadata"
  ELSE "isIngested"

\* The handler's loop takes the next record of the batch ("loop"), or the
\* handler is invoked with a new batch and takes its first record ("idle",
\* and "loop" when the batch before has no record left).
NextRecord(i, r, max) ==
  /\ pc[i] \in {"idle", "loop"}
  /\ nEvents < max
  /\ pc' = [pc EXCEPT ![i] = dispatch(r)]
  /\ ev' = [ev EXCEPT ![i] = r]
  /\ out' = [out EXCEPT ![i] = "running"]
  /\ nEvents' = nEvents + 1
  /\ UNCHANGED <<chunks, inventory, s3meta, pending, err, hist>>
  /\ UNCHANGED rvars

(***************************************************************************)
(* Removed events.                                                         *)
(***************************************************************************)
DeleteAll(objectKey) == [op |-> "deleteMany", key |-> objectKey, eTag |-> "-"]

\* removeObject: the deleteMany is issued and not awaited.
removeObject(i) ==
  /\ pc[i] = "removeObject"
  /\ pending' = pending (+) SetToBag({[o |-> DeleteAll(ev[i].key), by |-> 0]})
  /\ Goto(i, "markAsRemoved", "none")
  /\ UNCHANGED <<chunks, inventory, s3meta, ev, nEvents>>
  /\ UNCHANGED rvars

\* A variant that sets eTag and status and keeps the other fields.
markAsRemovedSet(inv, a) ==
  IF inv[a] = NoEntry THEN inv
  ELSE [inv EXCEPT ![a] = [f \in DOMAIN @ |-> IF f \in DOMAIN RemovedEntry THEN RemovedEntry[f] ELSE @[f]]]

\* markAsRemoved: findOneAndReplace with upsert: false.
markAsRemovedWrite(inv, a) ==
  IF inv[a] = NoEntry THEN inv ELSE [inv EXCEPT ![a] = RemovedEntry]

markAsRemoved(i) ==
  /\ pc[i] = "markAsRemoved"
  /\ \/ /\ inventory' = markAsRemovedWrite(inventory, ev[i].key)
        /\ Return(i, "removed")
     \/ /\ Throw(i)
        /\ UNCHANGED inventory
  /\ UNCHANGED <<chunks, s3meta, pending, ev, nEvents>>
  /\ UNCHANGED rvars

(***************************************************************************)
(* Sidecar merge: ingestMetadata, called for a sidecar event and after a   *)
(* successful ingest.                                                      *)
(***************************************************************************)
\* { "metadata.source": s3Address }
sourceFilter(c, s3Address) == c.metadata.source = s3Address

\* A variant whose update has no filter.
mergeAttrsAll(B, s3Address, attrs) ==
  updateMany(B, DOMAIN B, [c \in DOMAIN B |-> addFields(c, attrs)])

\* The updateMany of ingestMetadata.
mergeAttrs(B, s3Address, attrs) ==
  LET matched == {c \in DOMAIN B : sourceFilter(c, s3Address)}
  IN updateMany(B, matched, [c \in matched |-> addFields(c, attrs)])

ingestMetadata(i) ==
  /\ pc[i] \in {"ingestMetadata", "ingestMetadataAfter"}
  /\ LET event == pc[i] = "ingestMetadata"
         metadata == load(s3Object(metadataObjectKey(ev[i].key)))
         thrown == IF event THEN Throw(i) ELSE Goto(i, "markAsError", "ingestMetadata")
     IN \/ /\ metadata.res = "null"
           /\ Return(i, IF event THEN "noMetadata" ELSE "success")
           /\ UNCHANGED chunks
        \/ /\ metadata.res = "attrs"
           /\ chunks' = mergeAttrs(chunks, targetObjectKey(ev[i].key), metadata.attrs)
           /\ Return(i, IF event THEN "metadata" ELSE "success")
        \/ /\ metadata.res \in {"attrs", "throw"}
           /\ thrown
           /\ UNCHANGED chunks
  /\ UNCHANGED <<inventory, s3meta, pending, ev, nEvents>>
  /\ UNCHANGED rvars

(***************************************************************************)
(* Created events of other keys: isIngested, ingestObject, markAsIngested, *)
(* ingestMetadata, and markAsError in the catch block.                     *)
(***************************************************************************)
\* A variant that finds no entry.
isIngestedNever(inv, s3Address, objectEtag) == FALSE

\* A variant that looks at the eTag of the entry only.
isIngestedAnyStatus(inv, s3Address, objectEtag) ==
  /\ inv[s3Address] # NoEntry
  /\ inv[s3Address].eTag = objectEtag

\* findOne({ _id: s3Address, eTag: objectEtag, status: "success" }) !== null
isIngestedResult(inv, s3Address, objectEtag) ==
  /\ inv[s3Address] # NoEntry
  /\ inv[s3Address].eTag = objectEtag
  /\ inv[s3Address].status = "success"

isIngested(i) ==
  /\ pc[i] = "isIngested"
  /\ \/ Throw(i)
     \/ /\ ~isPdf(ev[i].key)
        /\ Return(i, "skipNonPdf")
     \/ /\ isPdf(ev[i].key)
        /\ isIngestedResult(inventory, ev[i].key, ev[i].eTag)
        /\ Return(i, "skipIngested")
     \/ /\ isPdf(ev[i].key)
        /\ ~isIngestedResult(inventory, ev[i].key, ev[i].eTag)
        /\ Goto(i, "ingestObject", "none")
  /\ UNCHANGED <<chunks, inventory, s3meta, pending, ev, nEvents>>
  /\ UNCHANGED rvars

InsertNew(objectKey, objectEtag) ==
  [op |-> "insertMany", key |-> objectKey, eTag |-> objectEtag]

DeleteStale(objectKey, objectEtag) ==
  [op |-> "deleteMany", key |-> objectKey, eTag |-> objectEtag]

\* A variant that issues the insert and the delete although the embedding
\* of a segment has failed.
ingestObjectEager(i) ==
  /\ pc[i] = "ingestObject"
  /\ \/ /\ Goto(i, "markAsError", "loadAndSplit")
        /\ UNCHANGED pending
     \/ /\ \E s \in 1 .. NSeg : Goto(i, "markAsError", "getVectorEmbeddings")
        /\ pending' = pending (+) SetToBag({[o |-> InsertNew(ev[i].key, ev[i].eTag), by |-> 0],
                                            [o |-> DeleteStale(ev[i].key, ev[i].eTag), by |-> 0]})
     \/ /\ pending' = pending (+) SetToBag({[o |-> InsertNew(ev[i].key, ev[i].eTag), by |-> i],
                                            [o |-> DeleteStale(ev[i].key, ev[i].eTag), by |-> i]})
        /\ Goto(i, "awaitAll", "none")
  /\ UNCHANGED <<chunks, inventory, s3meta, ev, nEvents>>
  /\ UNCHANGED rvars

\* ingestObject up to Promise.all: load and split, embed every segment,
\* then issue insertMany and deleteMany together.
ingestObject(i) ==
  /\ pc[i] = "ingestObject"
  /\ \/ /\ Goto(i, "markAsError", "loadAndSplit")
        /\ UNCHANGED pending
     \/ /\ \E s \in 1 .. NSeg : Goto(i, "markAsError", "getVectorEmbeddings")
        /\ UNCHANGED pending
     \/ /\ pending' = pending (+) SetToBag({[o |-> InsertNew(ev[i].key, ev[i].eTag), by |-> i],
                                            [o |-> DeleteStale(ev[i].key, ev[i].eTag), by |-> i]})
        /\ Goto(i, "awaitAll", "none")
  /\ UNCHANGED <<chunks, inventory, s3meta, ev, nEvents>>
  /\ UNCHANGED rvars

\* A variant whose filter names the eTag alone.
staleFilterAnySource(c, s3Address, objectEtag) == c.metadata.eTag # objectEtag

\* { "metadata.source": s3Address, "metadata.eTag": { $ne: objectEtag } }
staleFilter(c, s3Address, objectEtag) ==
  c.metadata.source = s3Address /\ c.metadata.eTag # objectEtag

\* What the store does when an operation takes effect.
apply(o, B) ==
  IF o.op = "insertMany" THEN B (+) chunksWithVector(o.key, o.eTag)
  ELSE IF o.eTag = "-"
  THEN deleteMany(B, {c \in DOMAIN B : sourceFilter(c, o.key)})
  ELSE deleteMany(B, {c \in DOMAIN B : staleFilter(c, o.key, o.eTag)})

Awaited(P, i) == {p \in DOMAIN P : p.by = i}

\* An operation in flight takes effect; Promise.all resolves with the last
\* of the two it awaits.
StoreApply(p) ==
  /\ p \in DOMAIN pending
  /\ chunks' = apply(p.o, chunks)
  /\ pending' = pending (-) SetToBag({p})
  /\ IF p.by # 0 /\ Awaited(pending', p.by) = {}
     THEN Goto(p.by, "markAsIngested", "none")
     ELSE UNCHANGED <<pc, out, hist, err>>
  /\ UNCHANGED <<inventory, s3meta, ev, nEvents>>
  /\ UNCHANGED rvars

\* An operation in flight fails; Promise.all rejects at once and the other
\* operation, if still in flight, is awaited by nobody.
StoreFail(p) ==
  /\ p \in DOMAIN pending
  /\ LET rest == pending (-) SetToBag({p})
     IN pending' = BagMap(rest, [q \in DOMAIN rest |->
                                   IF q.by = p.by THEN [q EXCEPT !.by = 0] ELSE q])
  /\ IF p.by # 0
     THEN Goto(p.by, "markAsError", p.o.op)
     ELSE UNCHANGED <<pc, out, hist, err>>
  /\ UNCHANGED <<chunks, inventory, s3meta, ev, nEvents>>
  /\ UNCHANGED rvars

\* markAsIngested: findOneAndReplace with upsert: true.
markAsIngested(i) ==
  /\ pc[i] = "markAsIngested"
  /\ \/ /\ inventory' = [inventory EXCEPT ![ev[i].key] = SuccessEntry(ev[i].eTag)]
        /\ Goto(i, "ingestMetadataAfter", "none")
     \/ /\ Goto(i, "markAsError", "markAsIngested")
        /\ UNCHANGED inventory
  /\ UNCHANGED <<chunks, s3meta, pending, ev, nEvents>>
  /\ UNCHANGED rvars

\* JSON.stringify({ error: error.toString(), stack: error.stack }): a text
\* that describes the error.
errorString(error) == "error"

\* A variant that writes no error text.
markAsErrorNoError(inv, s3Address, objectEtag, text) ==
  [inv EXCEPT ![s3Address] = [eTag |-> objectEtag, status |-> "fail"]]

\* markAsError: findOneAndReplace with upsert: true.
markAsErrorWrite(inv, s3Address, objectEtag, text) ==
  [inv EXCEPT ![s3Address] = ErrorEntry(objectEtag, text)]

\* A variant that takes the chunks of the failed attempt out of the store.
markAsErrorRollback(i) ==
  /\ pc[i] = "markAsError"
  /\ chunks' = deleteMany(chunks, {c \in DOMAIN chunks :
                                     /\ c.metadata.source = ev[i].key
                                     /\ c.metadata.eTag = ev[i].eTag})
  /\ \/ /\ inventory' = markAsErrorWrite(inventory, ev[i].key, ev[i].eTag, errorString(err[i]))
        /\ Return(i, "failed")
     \/ /\ Throw(i)
        /\ UNCHANGED inventory
  /\ UNCHANGED <<s3meta, pending, ev, nEvents>>
  /\ UNCHANGED rvars

markAsError(i) ==
  /\ pc[i] = "markAsError"
  /\ \/ /\ inventory' = markAsErrorWrite(inventory, ev[i].key, ev[i].eTag, errorString(err[i]))
        /\ Return(i, "failed")
     \/ /\ Throw(i)
        /\ UNCHANGED inventory
  /\ UNCHANGED <<chunks, s3meta, pending, ev, nEvents>>
  /\ UNCHANGED rvars

(***************************************************************************)
(* The bucket: a sidecar object is uploaded where there was none.  Only    *)
(* ingestMetadata reads the object and an upload commutes with every other *)
(* step, so an upload is taken when a handler is about to read it.         *)
(***************************************************************************)
PutSidecar(k, payload) ==
  /\ s3meta[k].kind = "absent"
  /\ \E i \in Invs :
       /\ pc[i] \in {"ingestMetadata", "ingestMetadataAfter"}
       /\ metadataObjectKey(ev[i].key) = k
  /\ payload.kind # "absent"
  /\ s3meta' = [s3meta EXCEPT ![k] = payload]
  /\ UNCHANGED <<chunks, inventory, pending, pc, ev, out, err, nEvents, hist>>
  /\ UNCHANGED rvars

(***************************************************************************)
(* Specifications.  Spec: the invocations run concurrently.  SeqSpec: one  *)
(* invocation at a time, its records one after the other.                  *)
(***************************************************************************)
handleEvent(i) ==
  \/ removeObject(i)
  \/ markAsRemoved(i)
  \/ ingestMetadata(i)
  \/ isIngested(i)
  \/ ingestObject(i)
  \/ markAsIngested(i)
  \/ markAsError(i)

handler(i, max) ==
  \/ \E r \in Records : NextRecord(i, r, max)
  \/ handleEvent(i)

Store ==
  \/ \E p \in DOMAIN pending : StoreApply(p)
  \/ \E p \in DOMAIN pending : StoreFail(p)

Bucket == \E k \in SidecarKeys, payload \in Payloads : PutSidecar(k, payload)

Next ==
  \/ \E i \in Invs : handler(i, MaxEvents)
  \/ Store
  \/ Bucket

Spec == Init /\ [][Next]_vars

NextSeq ==
  \/ handler(1, MaxSeqEvents)
  \/ Store
  \/ Bucket

SeqSpec == Init /\ [][NextSeq]_vars

(***************************************************************************)
(* The function's timeout.  The runtime ends an invocation that is still   *)
(* running at its deadline: no further statement of the handler runs, the  *)
(* catch block included; the operations already sent to the store are      *)
(* awaited by nobody.                                                      *)
(***************************************************************************)
deadline(i) ==
  /\ ~(pc[i] \in {"idle", "loop"})
  /\ pc' = [pc EXCEPT ![i] = "idle"]
  /\ out' = [out EXCEPT ![i] = "timedOut"]
  /\ err' = [err EXCEPT ![i] = "none"]
  /\ hist' = [hist EXCEPT ![AddrOf(ev[i])] = Recent(Append(@, Outcome(ev[i], "timedOut")))]
  /\ pending' = BagMap(pending, [q \in DOMAIN pending |->
                                   IF q.by = i THEN [q EXCEPT !.by = 0] ELSE q])
  /\ UNCHANGED <<chunks, inventory, s3meta, ev, nEvents>>
  /\ UNCHANGED rvars

\* One invocation at a time, each of which may run into the deadline.
NextDeadline ==
  \/ handler(1, MaxSeqEvents)
  \/ Store
  \/ Bucket
  \/ deadline(1)

DeadlineSpec == Init /\ [][NextDeadline]_vars

(***************************************************************************)
(* Retrieval: MongoDBHybridRetriever.  Scores are exact rationals; the     *)
(* rounding of the store's double arithmetic (one unit in the last place)  *)
(* is left out: it changes no comparison of two different scores.          *)
(***************************************************************************)
RECURSIVE GCD(_, _)
GCD(a, b) == IF b = 0 THEN a ELSE GCD(b, a % b)

Rational(n, d) == LET g == GCD(n, d) IN [num |-> n \div g, den |-> d \div g]

\* $add, $multiply, $divide on numbers.
add(x, y) == Rational(x.num * y.den + y.num * x.den, x.den * y.den)

multiply(x, y) == Rational(x.num * y.num, x.den * y.den)

divide(x, y) == Rational(x.num * y.den, x.den * y.num)

\* The order of $sort and $max on numbers.
less(x, y) == x.num * y.den < y.num * x.den

\* A field that is missing or null.
Null == [null |-> TRUE]

\* {"$ifNull": [x, y]}
ifNull(x, y) == IF "null" \in DOMAIN x THEN y ELSE x

\* {"$max": "$field"}: the greatest value of the rows that have the field,
\* null when none has it.
max(rows, field) ==
  LET values == {rows[n][field] : n \in {m \in DOMAIN rows : field \in DOMAIN rows[m]}}
  IN IF values = {} THEN Null
     ELSE CHOOSE x \in values : \A y \in values : ~less(x, y)

\* A variant that cuts nothing off.
limitNothing(rows, n) == rows

\* {"$limit": n}
limit(rows, n) == IF Len(rows) > n THEN SubSeq(rows, 1, n) ELSE rows

\* The chunk of an _id.
docOf(index, id) == CHOOSE d \in index.docs : d._id = id

\* $vectorSearch: of the numCandidates nearest chunks the index finds, the
\* first limit, nearest first.
vectorSearch(index, numCandidates, n) ==
  LET found == limit(limit(index.vector, numCandidates), n)
  IN [r \in 1 .. Len(found) |-> docOf(index, found[r])]

\* $search: the chunks whose text matches, most relevant first.
search(index) == [r \in 1 .. Len(index.text) |-> docOf(index, index.text[r])]

\* $group {_id: null, docs: {$push: "$$ROOT"}} and $unwind {path: "$docs",
\* includeArrayIndex: "rank"}: one row for each document, with its position.
unwind(docs) == [r \in 1 .. Len(docs) |-> [docs |-> docs[r], rank |-> r - 1]]

\* The constant added to the rank.
RankConstant == 60

\* A variant that counts ranks from one.
rankScoreFromOne(weight, rank) ==
  multiply(weight, divide(Rational(1, 1), Rational(rank + 1 + RankConstant, 1)))

\* {"$multiply": [weight, {"$divide": [1.0, {"$add": ["$rank", 60]}]}]}
rankScore(weight, rank) ==
  multiply(weight, divide(Rational(1, 1), Rational(rank + RankConstant, 1)))

\* $addFields {_id: "$docs._id", vs_score: ...} of the vector branch.
addVsScore(rows, vectorWeight) ==
  [r \in DOMAIN rows |->
     [_id |-> rows[r].docs._id, docs |-> rows[r].docs, rank |-> rows[r].rank,
      vs_score |-> rankScore(vectorWeight, rows[r].rank)]]

\* $addFields {_id: "$docs._id", fts_score: ...} of the full-text branch.
addFtsScore(rows, fullTextWeight) ==
  [r \in DOMAIN rows |->
     [_id |-> rows[r].docs._id, docs |-> rows[r].docs, rank |-> rows[r].rank,
      fts_score |-> rankScore(fullTextWeight, rows[r].rank)]]

\* The rows of the vector branch: $vectorSearch with numCandidates k*10 and
\* limit k, ranked and scored.
vectorRows(index, k, vectorWeight) ==
  addVsScore(unwind(vectorSearch(index, k * 10, k)), vectorWeight)

\* The rows of the $unionWith pipeline: $search, $limit k, ranked and scored.
fullTextRows(index, k, fullTextWeight) ==
  addFtsScore(unwind(limit(search(index), k)), fullTextWeight)

\* A variant that keeps every row as a group of its own.
groupByRow(rows) ==
  {[_id |-> rows[n]._id, docs |-> rows[n].docs,
    vs_score |-> max(<<rows[n]>>, "vs_score"),
    fts_score |-> max(<<rows[n]>>, "fts_score")] : n \in DOMAIN rows}

\* $group {_id: "$_id", docs: {$first: "$docs"}, vs_score: {$max: ...},
\* fts_score: {$max: ...}}; the groups come in no particular order.
groupById(rows) ==
  {LET mine == SelectSeq(rows, LAMBDA row : row._id = id)
   IN [_id |-> id, docs |-> mine[1].docs,
       vs_score |-> max(mine, "vs_score"),
       fts_score |-> max(mine, "fts_score")] : id \in {rows[n]._id : n \in DOMAIN rows}}

\* The two $addFields of the fusion and $replaceRoot {newRoot: "$docs"}.
replaceRoot(g) ==
  LET vs == ifNull(g.vs_score, Rational(0, 1))
      fts == ifNull(g.fts_score, Rational(0, 1))
  IN [f \in DOMAIN g.docs \cup {"vs_score", "fts_score", "score"} |->
        CASE f = "vs_score" -> vs
          [] f = "fts_score" -> fts
          [] f = "score" -> add(vs, fts)
          [] OTHER -> g.docs[f]]

\* A variant that removes no field.
unsetNothing(d, field) == d

\* {"$unset": field}
unset(d, field) == [f \in DOMAIN d \ {field} |-> d[f]]

\* The documents of the fusion, before $sort and $limit.
fused(index, k, vectorWeight, fullTextWeight) ==
  LET rows == vectorRows(index, k, vectorWeight) \o fullTextRows(index, k, fullTextWeight)
  IN {unset(replaceRoot(g), "embedding") : g \in groupById(rows)}

\* A variant that sorts by ascending score.
RECURSIVE sortAscending(_)
sortAscending(docs) ==
  IF docs = {} THEN {<<>>}
  ELSE UNION {{<<d>> \o rest : rest \in sortAscending(docs \ {d})} :
                d \in {x \in docs : \A y \in docs : ~less(y.score, x.score)}}

\* {"$sort": {"score": -1}}: every order of the documents by descending
\* score; documents of equal score come in any order.
RECURSIVE sort(_)
sort(docs) ==
  IF docs = {} THEN {<<>>}
  ELSE UNION {{<<d>> \o rest : rest \in sort(docs \ {d})} :
                d \in {x \in docs : \A y \in docs : ~less(x.score, y.score)}}

\* buildHybridSearchAggregation run by aggregate(...).toArray(): the lists
\* the store may return.
aggregate(index, k, vectorWeight, fullTextWeight) ==
  {limit(sorted, k) : sorted \in sort(fused(index, k, vectorWeight, fullTextWeight))}

\* A variant whose pipeline ends with a stage that writes its documents
\* into the collection.
aggregateEffectMerge(B, docs) == B (+) SetToBag({docs[n] : n \in DOMAIN docs})

\* What running the pipeline does to the collection: it holds no $out and
\* no $merge stage, so the collection is as it was.
aggregateEffect(B, docs) == B

(***************************************************************************)
(* The chunk collection as the retrieval function finds it, and what its   *)
(* two search indexes answer to the query.                                 *)
(***************************************************************************)
\* Chunks of a small collection.
NDocs == 3
\* Chunks of a collection larger than a result list.
NBig == 12
\* The greatest k of a direct call of hybridSearch.
MaxK == 3

Stored(id) ==
  [_id |-> id,
   text |-> <<"text", id>>,
   embedding |-> getVectorEmbeddings(<<"text", id>>),
   metadata |-> [source |-> Key("a1", "pdf", FALSE), eTag |-> "e1",
                 region |-> IF id % 2 = 1 THEN "de" ELSE "fr"]]

\* The sequences without repetition of elements of S.
RECURSIVE InjSeqs(_)
InjSeqs(S) ==
  {<<>>} \cup UNION {{<<x>> \o rest : rest \in InjSeqs(S \ {x})} : x \in S}

Ascending(n) == [r \in 1 .. n |-> r]

Descending(n) == [r \in 1 .. n |-> n + 1 - r]

\* A small collection with any answers of the two indexes, or a large one
\* where the full-text index answers in the reverse order, or with nothing.
Indexes ==
  {[docs |-> {Stored(id) : id \in ids}, vector |-> v, text |-> t] :
     <<ids, v, t>> \in {x \in (SUBSET (1 .. NDocs)) \X InjSeqs(1 .. NDocs) \X InjSeqs(1 .. NDocs) :
                          /\ {x[2][n] : n \in DOMAIN x[2]} \subseteq x[1]
                          /\ {x[3][n] : n \in DOMAIN x[3]} \subseteq x[1]}}
    \cup {[docs |-> {Stored(id) : id \in 1 .. NBig}, vector |-> Ascending(NBig), text |-> t] :
            t \in {<<>>, Descending(NBig)}}

(***************************************************************************)
(* The retrieval handler, query and hybridSearch.                          *)
(***************************************************************************)
\* A filter map as JSON text, or text that is no JSON.
Json(m) == [json |-> m]

NoJson == [text |-> "{"]

\* The values of the 'filters' parameter and of promptSessionAttributes.filters.
FilterTexts ==
  {Json([region |-> "de"]), Json([region |-> "fr"]), Json([region |-> "fr", year |-> "2024"]), NoJson}

Absent == [absent |-> TRUE]

\* rawFilters ? JSON.parse(rawFilters) : {}
parseOrEmpty(value) == IF "absent" \in DOMAIN value THEN <<>> ELSE value.json

\* { ...a, ...b }
spread(a, b) == [key \in DOMAIN a \cup DOMAIN b |-> IF key \in DOMAIN b THEN b[key] ELSE a[key]]

\* The k of query.
K == 10

\* The default weights of hybridSearch.
DefaultVectorWeight == Rational(1, 10)

DefaultFullTextWeight == Rational(9, 10)

Weights == {<<DefaultVectorWeight, DefaultFullTextWeight>>, <<Rational(1, 2), Rational(1, 2)>>}

Request(raw, turn, filters, k, vectorWeight, fullTextWeight, via) ==
  [raw |-> raw, turn |-> turn, filters |-> filters, k |-> k,
   vectorWeight |-> vectorWeight, fullTextWeight |-> fullTextWeight, via |-> via]

\* The variables of the ingest function.
ivars == <<chunks, inventory, s3meta, pending, pc, ev, out, err, nEvents, hist>>

\* The handler up to its call of query: the two filter texts are parsed
\* and merged; text that is no JSON makes JSON.parse throw.
retrievalHandler ==
  /\ rpc = "idle"
  /\ \E raw \in FilterTexts \cup {Absent}, turn \in FilterTexts \cup {Absent} :
       IF raw = NoJson \/ turn = NoJson
       THEN /\ rpc' = "failed"
            /\ req' = Request(raw, turn, <<>>, 0, DefaultVectorWeight, DefaultFullTextWeight, "handler")
       ELSE /\ rpc' = "query"
            /\ req' = Request(raw, turn, spread(parseOrEmpty(raw), parseOrEmpty(turn)),
                              0, DefaultVectorWeight, DefaultFullTextWeight, "handler")
  /\ UNCHANGED <<kb, results, body, ivars, hvars>>

\* A variant that answers from the full-text index alone when the
\* embedding model fails.
queryTextOnly ==
  /\ rpc = "query"
  /\ \/ /\ rpc' = "hybridSearch"
        /\ req' = [req EXCEPT !.k = K]
        /\ UNCHANGED results
     \/ /\ rpc' = "response"
        /\ req' = [req EXCEPT !.k = K]
        /\ results' \in aggregate([kb EXCEPT !.vector = <<>>], K, req.vectorWeight, req.fullTextWeight)
  /\ UNCHANGED <<kb, body, ivars, hvars>>

\* query(text, filters): the vector of the text, then hybridSearch(text,
\* vector, 10); a failure of the embedding model is propagated.
query ==
  /\ rpc = "query"
  /\ \/ /\ rpc' = "hybridSearch"
        /\ req' = [req EXCEPT !.k = K]
     \/ /\ rpc' = "failed"
        /\ UNCHANGED req
  /\ UNCHANGED <<kb, results, body, ivars, hvars>>

\* hybridSearch called with a k and weights of the caller's choice.
hybridSearchCall ==
  /\ rpc = "idle"
  /\ \E k \in 1 .. MaxK, w \in Weights :
       req' = Request(Absent, Absent, <<>>, k, w[1], w[2], "direct")
  /\ rpc' = "hybridSearch"
  /\ UNCHANGED <<kb, results, body, ivars, hvars>>

\* hybridSearch: the aggregation is run and its documents are returned; a
\* failure of the store is propagated.
hybridSearch ==
  /\ rpc = "hybridSearch"
  /\ \/ /\ results' \in aggregate(kb, req.k, req.vectorWeight, req.fullTextWeight)
        /\ chunks' = aggregateEffect(chunks, results')
        /\ rpc' = IF req.via = "handler" THEN "response" ELSE "done"
     \/ /\ rpc' = "failed"
        /\ UNCHANGED <<results, chunks>>
  /\ UNCHANGED <<kb, req, body, hvars>>
  /\ UNCHANGED <<inventory, s3meta, pending, pc, ev, out, err, nEvents, hist>>

\* `<search_result>${JSON.stringify(d)}<source>${d.metadata?.source}</source></search_result>`
searchResult(d) == [json |-> d, source |-> d.metadata.source]

\* The handler after query: the response body.
response ==
  /\ rpc = "response"
  /\ body' = [r \in DOMAIN results |-> searchResult(results[r])]
  /\ rpc' = "done"
  /\ UNCHANGED <<kb, req, results, ivars, hvars>>

QueryInit ==
  /\ chunks = EmptyBag
  /\ inventory = [a \in Keys |-> NoEntry]
  /\ hist = [a \in Keys |-> <<>>]
  /\ s3meta = [k \in SidecarKeys |-> [kind |-> "absent"]]
  /\ pending = EmptyBag
  /\ pc = [i \in Invs |-> "idle"]
  /\ ev = [i \in Invs |-> NoRecord]
  /\ out = [i \in Invs |-> "none"]
  /\ err = [i \in Invs |-> "none"]
  /\ nEvents = 0
  /\ kb \in Indexes
  /\ rpc = "idle"
  /\ req = NoRequest
  /\ results = <<>>
  /\ body = <<>>
  /\ ColdStart

QueryNext ==
  \/ retrievalHandler
  \/ query
  \/ hybridSearchCall
  \/ hybridSearch
  \/ response

QuerySpec == QueryInit /\ [][QueryNext]_vars

(***************************************************************************)
(* The retriever of the retrieval module.  The handler builds it on first  *)
(* use and keeps it in a variable of the module; calls of one process run  *)
(* on one event loop and interleave at every await.                        *)
(***************************************************************************)
\* The handler up to its test `if (!mdbHybridRetriever)`: a call that finds
\* the variable undefined goes on to build a retriever, any other goes on
\* with the one the variable holds.
handlerEnter(j) ==
  /\ hpc[j] = "idle"
  /\ nCalls < MaxCalls
  /\ nCalls' = nCalls + 1
  /\ hpc' = [hpc EXCEPT ![j] = IF mdbHybridRetriever = 0 THEN "getHybridRetriever" ELSE "serve"]
  /\ UNCHANGED <<mdbHybridRetriever, clients, made>>
  /\ UNCHANGED <<kb, rpc, req, results, body, ivars>>

\* getHybridRetriever: the connection string is read (from the secret, with
\* an await, when one is configured); without one the call throws; otherwise
\* a new MongoClient and a new MongoDBHybridRetriever on it are constructed.
getHybridRetriever(j) ==
  /\ hpc[j] = "getHybridRetriever"
  /\ \/ /\ clients' = clients + 1
        /\ made' = [made EXCEPT ![j] = clients + 1]
        /\ hpc' = [hpc EXCEPT ![j] = "assign"]
     \/ /\ hpc' = [hpc EXCEPT ![j] = "idle"]
        /\ UNCHANGED <<clients, made>>
  /\ UNCHANGED <<mdbHybridRetriever, nCalls>>
  /\ UNCHANGED <<kb, rpc, req, results, body, ivars>>

\* `mdbHybridRetriever = await getHybridRetriever()`: the call resumes after
\* the await and stores what it has built.
handlerAssign(j) ==
  /\ hpc[j] = "assign"
  /\ mdbHybridRetriever' = made[j]
  /\ hpc' = [hpc EXCEPT ![j] = "serve"]
  /\ UNCHANGED <<clients, made, nCalls>>
  /\ UNCHANGED <<kb, rpc, req, results, body, ivars>>

\* The rest of the handler: the query on the retriever of the module and
\* the response, or an exception on the way.
handlerServe(j) ==
  /\ hpc[j] = "serve"
  /\ hpc' = [hpc EXCEPT ![j] = "idle"]
  /\ made' = [made EXCEPT ![j] = 0]
  /\ UNCHANGED <<mdbHybridRetriever, clients, nCalls>>
  /\ UNCHANGED <<kb, rpc, req, results, body, ivars>>

WarmNext ==
  \E j \in Callers :
    \/ handlerEnter(j)
    \/ getHybridRetriever(j)
    \/ handlerAssign(j)
    \/ handlerServe(j)

WarmSpec == Init /\ [][WarmNext]_vars

(***************************************************************************)
(* The two functions side by side: a request of the agent is served while  *)
(* records are ingested.  The search indexes follow the collection with a  *)
(* delay, so what they answer is not tied to the chunks of the moment.     *)
(***************************************************************************)
\* Records handled while a request is served.
MaxJointEvents == 1

\* The indexes answer with the first two chunks, and with the second and
\* the third.
JointIndex ==
  [docs |-> {Stored(id) : id \in 1 .. NDocs},
   vector |-> SubSeq(Ascending(NDocs), 1, 2),
   text |-> SubSeq(Ascending(NDocs), 2, 3)]

JointInit ==
  /\ \/ /\ chunks = EmptyBag
        /\ inventory = [a \in Keys |-> NoEntry]
        /\ hist = [a \in Keys |-> <<>>]
     \/ /\ chunks = chunksWithVector(PriorKey, PriorETag)
        /\ inventory = [a \in Keys |-> IF a = PriorKey THEN SuccessEntry(PriorETag) ELSE NoEntry]
        /\ hist = [a \in Keys |->
                     IF a = PriorKey
                     THEN <<Outcome(Created(PriorKey, PriorETag), "success")>>
                     ELSE <<>>]
  /\ s3meta = [k \in SidecarKeys |-> [kind |-> "absent"]]
  /\ pending = EmptyBag
  /\ pc = [i \in Invs |-> "idle"]
  /\ ev = [i \in Invs |-> NoRecord]
  /\ out = [i \in Invs |-> "none"]
  /\ err = [i \in Invs |-> "none"]
  /\ nEvents = 0
  /\ kb = JointIndex
  /\ rpc = "idle"
  /\ req = NoRequest
  /\ results = <<>>
  /\ body = <<>>
  /\ ColdStart

JointNext ==
  \/ handler(1, MaxJointEvents)
  \/ Store
  \/ Bucket
  \/ QueryNext

JointSpec == JointInit /\ [][JointNext]_vars

(***************************************************************************)
(* Properties of the ingestion pipeline.                                   *)
(***************************************************************************)
Last(h) == h[Len(h)]

Quiet(i) == pc[i] \in {"idle", "loop"}

NoSidecar == \A k \in SidecarKeys : s3meta[k].kind = "absent"

\* The outcome "ingested with success" of a created event for a document.
Ingested(e) == [eventName |-> "ObjectCreated:Put", meta |-> FALSE, eTag |-> e, out |-> "success"]

IsIngestedOutcome(h) == h.eventName = "ObjectCreated:Put" /\ ~h.meta /\ h.out = "success"

\* C1 (idempotency): a created event for (address, eTag) whose last handled
\* event for the address was the successful ingestion of the same eTag is
\* skipped at the inventory lookup (unless the lookup itself fails), and the
\* step leaves the chunk collection, the operations in flight and the
\* inventory as they were: no insert, no delete, no inventory write.
C1_SecondProcessingSkips ==
  [][\A i \in Invs :
       (/\ pc[i] = "isIngested"
        /\ pc'[i] # "isIngested"
        /\ ev[i].key \in DocKeys
        /\ hist[ev[i].key] # <<>>
        /\ Last(hist[ev[i].key]) = Ingested(ev[i].eTag)
        /\ out'[i] # "threw")
       => /\ out'[i] = "skipIngested"
          /\ pc'[i] = "loop"
          /\ chunks' = chunks
          /\ pending' = pending
          /\ inventory' = inventory]_vars

C1_Witness ==
  \E a \in DocKeys, e \in ETags :
    /\ Quiet(1)
    /\ ev[1] = Created(a, e)
    /\ out[1] = "skipIngested"
    /\ Len(hist[a]) >= 2
    /\ hist[a][Len(hist[a]) - 1] = Ingested(e)
    /\ Last(hist[a]).out = "skipIngested"
    /\ ChunksOf(chunks, a) # {}

\* C2 (version replace): when the last two events handled for an address
\* are successful ingestions of eTagA and then of a different eTagB, every
\* chunk of the address carries eTagB and none carries eTagA.
C2_OnlyNewVersion ==
  \A a \in DocKeys :
    (/\ Quiet(1)
     /\ Len(hist[a]) >= 2
     /\ IsIngestedOutcome(hist[a][Len(hist[a]) - 1])
     /\ IsIngestedOutcome(Last(hist[a]))
     /\ hist[a][Len(hist[a]) - 1].eTag # Last(hist[a]).eTag)
    => \A c \in ChunksOf(chunks, a) :
         /\ c.metadata.eTag = Last(hist[a]).eTag
         /\ c.metadata.eTag # hist[a][Len(hist[a]) - 1].eTag

\* C3 (no gap): while an address whose last handled event was a successful
\* ingestion is re-ingested with a new eTag (no sidecar in the bucket), the
\* store holds at least one chunk of the address: the delete of the stale
\* version has not taken effect before the insert of the new one.
C3_NoGapDuringReingestion ==
  \A i \in Invs :
    (/\ pc[i] = "awaitAll"
     /\ NoSidecar
     /\ hist[ev[i].key] # <<>>
     /\ IsIngestedOutcome(Last(hist[ev[i].key]))
     /\ Last(hist[ev[i].key]).eTag # ev[i].eTag)
    => ChunksOf(chunks, ev[i].key) # {}

\* C4 (concurrent no gap): after two concurrent ingestions of one address
\* with different eTags, both successful, on an address ingested with
\* success before (no removed event, no sidecar), the store holds at least
\* one chunk of the address.
C4_ConcurrentNoGap ==
  \A a \in DocKeys :
    (/\ Quiet(1) /\ Quiet(2)
     /\ NoSidecar
     /\ isCreated(ev[1]) /\ isCreated(ev[2])
     /\ ev[1].key = a /\ ev[2].key = a
     /\ ev[1].eTag # ev[2].eTag
     /\ out[1] = "success" /\ out[2] = "success"
     /\ Len(hist[a]) = 3
     /\ \A n \in 1 .. 3 : IsIngestedOutcome(hist[a][n]))
    => ChunksOf(chunks, a) # {}

\* C5 (concurrent duplicate): after two concurrent created events for the
\* same (address, eTag), none in the inventory at the start, have both been
\* handled without error (no sidecar), the store holds exactly one copy of
\* each chunk of that version.
C5_OneBatch ==
  \A a \in DocKeys, e \in ETags :
    (/\ Quiet(1) /\ Quiet(2)
     /\ NoSidecar
     /\ ev[1] = Created(a, e) /\ ev[2] = Created(a, e)
     /\ out[1] \in {"success", "skipIngested"}
     /\ out[2] \in {"success", "skipIngested"})
    => \A s \in 1 .. NSeg : CopiesIn(ChunkDoc(a, e, s), chunks) = 1

\* C6 (removal): when handleEvent has returned from a removed event for an
\* address, the last event handled for it, no chunk of the address is left
\* in the store.
C6_NoChunkAfterRemoved ==
  \A i \in Invs :
    (/\ Quiet(i)
     /\ isRemoved(ev[i])
     /\ out[i] = "removed")
    => ChunksOf(chunks, ev[i].key) = {}

\* C7 (removed entry): when handleEvent has returned from a removed event
\* for an address, the inventory holds an entry of status "removed" for the
\* address, created if there was none.
C7_RemovedEntry ==
  \A i \in Invs :
    (/\ Quiet(i)
     /\ isRemoved(ev[i])
     /\ out[i] = "removed")
    => inventory[ev[i].key].status = "removed"

\* The chunks of a bag whose source is not the address.
OtherSources(B, a) == [c \in {x \in DOMAIN B : x.metadata.source # a} |-> B[c]]

\* C8 (metadata merge): the step of a sidecar event that merges the
\* attribute map into the store leaves every chunk of the target address
\* with each attribute of the map, as the sidecar holds it, and leaves the
\* chunks of every other address in the store as they were; no chunk is
\* added or removed.
C8_MergeOnlyTarget ==
  [][\A i \in Invs :
       (/\ pc[i] = "ingestMetadata"
        /\ out'[i] = "metadata")
       => LET a == targetObjectKey(ev[i].key)
              m == load(s3Object(metadataObjectKey(ev[i].key))).attrs
          IN /\ \A c \in ChunksOf(chunks', a) :
                  \A k \in DOMAIN m :
                    k \in DOMAIN c.metadata /\ c.metadata[k] = jsonValue(m[k])
             /\ \A c \in ChunksOf(chunks, a) :
                  \E d \in DOMAIN chunks' :
                    /\ d.text = c.text
                    /\ d.embedding = c.embedding
                    /\ \A k \in DOMAIN m :
                         k \in DOMAIN d.metadata /\ d.metadata[k] = jsonValue(m[k])
             /\ OtherSources(chunks, a) \sqsubseteq chunks'
             /\ BagCardinality(chunks') = BagCardinality(chunks)
             /\ inventory' = inventory
             /\ pending' = pending]_vars

\* C9 (unsupported key): every step of the handling of a created event whose
\* key is neither a document nor a sidecar leaves the chunk collection, the
\* inventory and the operations in flight as they were.
C9_UnsupportedKeyNoEffect ==
  [][\A i \in Invs :
       (/\ pc'[i] # pc[i]
        /\ LET r == IF Quiet(i) THEN ev'[i] ELSE ev[i]
           IN isCreated(r) /\ r.key \in OtherKeys)
       => /\ chunks' = chunks
          /\ inventory' = inventory
          /\ pending' = pending
          /\ pc'[i] \in {"isIngested", "loop", "idle"}]_vars

C9_Witness ==
  \E i \in Invs :
    /\ Quiet(i)
    /\ ev[i].key \in OtherKeys
    /\ out[i] = "skipNonPdf"
    /\ chunks # EmptyBag

\* The steps of ingestObject a failure of which handleEvent catches.
IngestFailures == {"loadAndSplit", "getVectorEmbeddings", "insertMany", "deleteMany"}

\* C10 (fail entry): an ingestion that fails in segmenting, embedding,
\* inserting or deleting goes to markAsError, and when markAsError returns
\* the inventory holds for the address the entry of the event's eTag with
\* status "fail" and an error text.
C10_FailEntry ==
  [][\A i \in Invs :
       /\ err[i] \in IngestFailures => pc[i] = "markAsError"
       /\ (/\ err[i] \in IngestFailures
           /\ pc'[i] # pc[i]
           /\ out'[i] # "threw")
          => /\ out'[i] = "failed"
             /\ pc'[i] = "loop"
             /\ inventory'[ev[i].key].status = "fail"
             /\ inventory'[ev[i].key].eTag = ev[i].eTag
             /\ "error" \in DOMAIN inventory'[ev[i].key]
             /\ inventory'[ev[i].key].error = errorString(err[i])]_vars

C10_Witness ==
  \E i \in Invs :
    /\ Quiet(i)
    /\ out[i] = "failed"
    /\ inventory[ev[i].key] = ErrorEntry(ev[i].eTag, "error")
    /\ Last(hist[ev[i].key]).out = "failed"

\* C11 (errors are contained): once a segmentation, embedding or store
\* error of an ingestion has been caught, the handling of the event ends
\* with a normal return of handleEvent and the handler's loop goes on.
C11_IngestErrorContained ==
  [][\A i \in Invs :
       (/\ err[i] \in IngestFailures
        /\ pc'[i] # pc[i])
       => /\ out'[i] = "failed"
          /\ pc'[i] = "loop"]_vars

\* The sidecar payloads that hold no attribute map.
NoAttributes == {"absent", "malformed", "noattrs", "null"}

\* C12 (sidecar without attributes): a sidecar event whose object is absent,
\* is not JSON, or parses to a value without metadataAttributes (null
\* included) ends with a normal return of handleEvent, and leaves the chunk
\* collection and the inventory as they were.
C12_NoAttributesNoOp ==
  [][\A i \in Invs :
       (/\ pc[i] = "ingestMetadata"
        /\ pc'[i] # pc[i]
        /\ s3Object(metadataObjectKey(ev[i].key)).kind \in NoAttributes)
       => /\ out'[i] = "noMetadata"
          /\ pc'[i] = "loop"
          /\ chunks' = chunks
          /\ inventory' = inventory]_vars

(***************************************************************************)
(* Properties of the retrieval engine.                                     *)
(***************************************************************************)
\* hybridSearch has returned its list.
Returned == rpc \in {"response", "done"}

ResultIds == [n \in DOMAIN results |-> results[n]._id]

\* C13: a result at 0-based rank r of the vector branch has vs_score
\* vectorWeight/(r+60), one at rank r of the full-text branch has fts_score
\* fullTextWeight/(r+60); with the default weights 0.1 and 0.9, vector ranks
\* [id1, id2] and full-text ranks [id2, id3] the scores are 0.1/60 for id1,
\* 0.1/61 + 0.9/60 for id2 and 0.9/61 for id3, in the order id2, id3, id1.
C13_RankScores ==
  Returned =>
    /\ \A n \in DOMAIN results : \A r \in 0 .. req.k - 1 :
         /\ (r < Len(kb.vector) /\ kb.vector[r + 1] = results[n]._id)
              => results[n].vs_score = divide(req.vectorWeight, Rational(r + 60, 1))
         /\ (r < Len(kb.text) /\ kb.text[r + 1] = results[n]._id)
              => results[n].fts_score = divide(req.fullTextWeight, Rational(r + 60, 1))
    /\ (/\ kb.vector = <<1, 2>>
        /\ kb.text = <<2, 3>>
        /\ req.k >= 3
        /\ req.vectorWeight = Rational(1, 10)
        /\ req.fullTextWeight = Rational(9, 10))
         => /\ ResultIds = <<2, 3, 1>>
            /\ results[1].score = add(Rational(1, 610), Rational(9, 600))
            /\ results[2].score = Rational(9, 610)
            /\ results[3].score = Rational(1, 600)

C13_Witness ==
  /\ Returned
  /\ kb.vector = <<1, 2>>
  /\ kb.text = <<2, 3>>
  /\ req.k = 3
  /\ req.vectorWeight = Rational(1, 10)
  /\ req.fullTextWeight = Rational(9, 10)
  /\ ResultIds = <<2, 3, 1>>

\* The metadata of a chunk satisfies a filter map.
Satisfies(d, filters) ==
  \A key \in DOMAIN filters :
    key \in DOMAIN d.metadata /\ d.metadata[key] = filters[key]

\* C14: when query is given a filter, no chunk whose metadata does not
\* satisfy the filter appears in the result.
C14_FilterExcludes ==
  (Returned /\ req.via = "handler") =>
    \A n \in DOMAIN results : Satisfies(results[n], req.filters)

\* The chunk is among the first k answers of the vector index, of the
\* full-text index.
InVectorBranch(id) == \E r \in 1 .. req.k : r <= Len(kb.vector) /\ kb.vector[r] = id

InFullTextBranch(id) == \E r \in 1 .. req.k : r <= Len(kb.text) /\ kb.text[r] = id

\* C15: every chunk id appears at most once in the result; a result found
\* by one branch only has score 0 for the other branch; and the score of
\* every result is the sum of its vs_score and its fts_score.
C15_FusedOnce ==
  Returned =>
    /\ \A n, m \in DOMAIN results : results[n]._id = results[m]._id => n = m
    /\ \A n \in DOMAIN results :
         /\ ~InVectorBranch(results[n]._id) => results[n].vs_score = Rational(0, 1)
         /\ ~InFullTextBranch(results[n]._id) => results[n].fts_score = Rational(0, 1)
         /\ results[n].score = add(results[n].vs_score, results[n].fts_score)

C15_Witness ==
  /\ Returned
  /\ \E n \in DOMAIN results :
       InVectorBranch(results[n]._id) /\ InFullTextBranch(results[n]._id)
  /\ \E n \in DOMAIN results :
       InVectorBranch(results[n]._id) /\ ~InFullTextBranch(results[n]._id)
  /\ \E n \in DOMAIN results :
       ~InVectorBranch(results[n]._id) /\ InFullTextBranch(results[n]._id)

\* The fused candidates that the result leaves out.
LeftOut ==
  {d \in fused(kb, req.k, req.vectorWeight, req.fullTextWeight) :
     \A n \in DOMAIN results : results[n]._id # d._id}

\* C16: the result is ordered by non-increasing score, and no fused
\* candidate that is left out has a higher score than a returned one.
C16_SortedTopK ==
  Returned =>
    /\ \A n, m \in DOMAIN results : n < m => ~less(results[n].score, results[m].score)
    /\ \A d \in LeftOut : \A n \in DOMAIN results : ~less(results[n].score, d.score)

C16_Witness ==
  /\ Returned
  /\ LeftOut # {}
  /\ \E n, m \in DOMAIN results : less(results[m].score, results[n].score)

\* C17: query returns at most 10 results, and the empty list when neither
\* index answers anything.
C17_AtMostTen ==
  (Returned /\ req.via = "handler") =>
    /\ Len(results) <= 10
    /\ (kb.vector = <<>> /\ kb.text = <<>>) => results = <<>>

C17_Witness ==
  /\ Returned
  /\ req.via = "handler"
  /\ Len(kb.vector) > 10
  /\ Len(results) = 10

\* C18: no result of query or hybridSearch and no item of the response
\* body holds the embedding of a chunk.
C18_NoEmbedding ==
  /\ \A n \in DOMAIN results : "embedding" \notin DOMAIN results[n]
  /\ \A n \in DOMAIN body : "embedding" \notin DOMAIN body[n].json

C18_Witness ==
  /\ rpc = "done"
  /\ body # <<>>
  /\ \E n \in DOMAIN results :
       InVectorBranch(results[n]._id) /\ InFullTextBranch(results[n]._id)
  /\ \E n \in DOMAIN results : ~InVectorBranch(results[n]._id)
  /\ \E n \in DOMAIN results : ~InFullTextBranch(results[n]._id)

\* C19: when the 'filters' parameter and the session attribute share a
\* key, the filter passed to query holds the value of the parameter.
C19_ParameterWins ==
  rpc = "query" =>
    \A key \in DOMAIN parseOrEmpty(req.raw) \cap DOMAIN parseOrEmpty(req.turn) :
      req.filters[key] = parseOrEmpty(req.raw)[key]

\* C20: the vector branch feeds the first k*10 answers of the vector index
\* into the fusion: each of them that is returned has the vs_score of its
\* rank.
C20_VectorOverFetch ==
  Returned =>
    /\ Len(vectorRows(kb, req.k, req.vectorWeight))
         = IF Len(kb.vector) < req.k * 10 THEN Len(kb.vector) ELSE req.k * 10
    /\ \A n \in DOMAIN results : \A r \in 0 .. req.k * 10 - 1 :
         (r < Len(kb.vector) /\ kb.vector[r + 1] = results[n]._id)
           => results[n].vs_score = divide(req.vectorWeight, Rational(r + 60, 1))

(***************************************************************************)
(* Further properties of the ingestion pipeline.                           *)
(***************************************************************************)
\* C21 (deadline): when the handling of a created event for a document has
\* been cut off by the deadline, the inventory entry of the address has
\* status "fail" and the eTag of the event.
C21_DeadlineMarksFail ==
  \A i \in Invs :
    (/\ pc[i] = "idle"
     /\ out[i] = "timedOut"
     /\ isCreated(ev[i])
     /\ ev[i].key \in DocKeys)
    => /\ inventory[ev[i].key].status = "fail"
       /\ inventory[ev[i].key].eTag = ev[i].eTag

\* C22 (read-only query): every step of the query path, whether it goes on,
\* returns or fails, and whatever the ingestion is doing at that moment,
\* leaves the chunk collection, the inventory and the store operations in
\* flight as they were.
C22_QueryReadOnly ==
  [][rpc' # rpc =>
       /\ chunks' = chunks
       /\ inventory' = inventory
       /\ pending' = pending]_vars

C22_Witness ==
  /\ rpc = "done"
  /\ results # <<>>
  /\ pc[1] = "awaitAll"
  /\ pending # EmptyBag
  /\ chunks # EmptyBag

\* C23 (embedding failure): query either goes on to hybridSearch with the
\* vector of the text or, when the embedding model fails, fails as a whole
\* with no result list; and a failed request stays failed: no search is
\* run and no result or response body is made for it.
C23_EmbeddingFailureAborts ==
  [][/\ (rpc = "query" /\ rpc' # "hybridSearch")
          => /\ rpc' = "failed"
             /\ results' = <<>>
             /\ body' = <<>>
     /\ rpc = "failed"
          => /\ rpc' = "failed"
             /\ results' = results
             /\ body' = body]_vars

C23_Witness ==
  /\ rpc = "failed"
  /\ req.via = "handler"
  /\ req.raw # NoJson
  /\ req.turn # NoJson
  /\ req.k = 0
  /\ kb.text # <<>>
  /\ results = <<>>

\* C24 (when an event is skipped): the inventory lookup of a created event
\* for a document, unless the lookup itself fails, ends the handling as
\* skipped exactly when the entry of the address has status "success" and
\* the eTag of the event; with no entry, another eTag, or status "fail" or
\* "removed" the handling goes on to ingestObject.
C24_SkipOnlyOnSuccess ==
  [][\A i \in Invs :
       (/\ pc[i] = "isIngested"
        /\ pc'[i] # pc[i]
        /\ ev[i].key \in DocKeys
        /\ out'[i] # "threw")
       => IF /\ inventory[ev[i].key].status = "success"
             /\ inventory[ev[i].key].eTag = ev[i].eTag
          THEN out'[i] = "skipIngested" /\ pc'[i] = "loop"
          ELSE pc'[i] = "ingestObject"]_vars

\* The address was ingested, then removed, and is created again with the
\* eTag it had: the ingest procedure runs.
C24_Witness ==
  \E a \in DocKeys :
    /\ pc[1] = "ingestObject"
    /\ ev[1].key = a
    /\ inventory[a] = RemovedEntry
    /\ Len(hist[a]) >= 2
    /\ hist[a][Len(hist[a]) - 1] = Ingested(ev[1].eTag)
    /\ Last(hist[a]).out = "removed"

\* C25 (embedding failure of a segment): when the embedding of a segment
\* fails, ingestObject has issued no insert and no delete and goes to the
\* catch block; the handling then changes no chunk and issues no store
\* operation, and when markAsError returns the inventory entry of the
\* address has status "fail" and the eTag of the event.
C25_EmbeddingFailureNoCommit ==
  [][\A i \in Invs :
       /\ (pc[i] = "ingestObject" /\ err'[i] = "getVectorEmbeddings")
            => /\ pc'[i] = "markAsError"
               /\ pending' = pending
               /\ chunks' = chunks
               /\ inventory' = inventory
       /\ (/\ pc[i] = "markAsError"
           /\ err[i] = "getVectorEmbeddings"
           /\ pc'[i] # pc[i]
           /\ out'[i] # "threw")
            => /\ chunks' = chunks
               /\ pending' = pending
               /\ inventory'[ev[i].key].status = "fail"
               /\ inventory'[ev[i].key].eTag = ev[i].eTag]_vars

C25_Witness ==
  \E i \in Invs :
    /\ pc[i] = "markAsError"
    /\ err[i] = "getVectorEmbeddings"
    /\ pending = EmptyBag
    /\ ChunksOf(chunks, ev[i].key) # {}
    /\ \A c \in ChunksOf(chunks, ev[i].key) : c.metadata.eTag # ev[i].eTag

\* C26 (one record at a time): when handleEvent has returned and the
\* handler's loop is about to take the next record, no store operation
\* started for the records before is still in flight.
C26_NothingInFlightBetweenRecords ==
  \A i \in Invs : pc[i] = "loop" => pending = EmptyBag

\* C27 (follow-up merge is best effort): when the sidecar merge that
\* follows a successful ingestion fails, the handling of the event ends
\* with the inventory entry of the address at status "success" and the
\* eTag of the event.
C27_FollowUpFailureKeepsSuccess ==
  [][\A i \in Invs :
       (/\ pc[i] = "markAsError"
        /\ err[i] = "ingestMetadata"
        /\ pc'[i] # pc[i])
       => inventory'[ev[i].key] = SuccessEntry(ev[i].eTag)]_vars

\* The copies the store holds of the chunk with a text.
CopiesOfText(B, text) == SumCopies(B, {c \in DOMAIN B : c.text = text})

\* C28 (no duplicate on retry): when the last two events handled for an
\* address, one after the other, are created events for the same eTag, the
\* first of them failed and retried by the second, the store holds each
\* chunk of that version of the address at most once.
C28_NoDuplicateOnRetry ==
  \A a \in DocKeys :
    (/\ Quiet(1)
     /\ Len(hist[a]) >= 2
     /\ \A n \in {Len(hist[a]) - 1, Len(hist[a])} :
          /\ hist[a][n].eventName = "ObjectCreated:Put"
          /\ ~hist[a][n].meta
          /\ hist[a][n].eTag = Last(hist[a]).eTag
     /\ hist[a][Len(hist[a]) - 1].out = "failed")
    => \A s \in 1 .. NSeg :
         CopiesOfText(chunks, pageContent(a, Last(hist[a]).eTag, s)) <= 1

\* C29 (remove, then create, in one batch): when the last two events handled
\* for an address are a removed event and then a created event that was
\* ingested with success, and no store operation is in flight any more,
\* the store holds every chunk of the created version and the inventory
\* entry of the address is status "success" with the eTag of that version.
C29_RecreateAfterRemove ==
  \A a \in DocKeys :
    (/\ Quiet(1)
     /\ pending = EmptyBag
     /\ Len(hist[a]) >= 2
     /\ hist[a][Len(hist[a]) - 1].eventName = "ObjectRemoved:Delete"
     /\ hist[a][Len(hist[a]) - 1].out = "removed"
     /\ IsIngestedOutcome(Last(hist[a])))
    => /\ \A s \in 1 .. NSeg :
            CopiesOfText(chunks, pageContent(a, Last(hist[a]).eTag, s)) >= 1
       /\ inventory[a] = SuccessEntry(Last(hist[a]).eTag)

\* What ties a chunk to its object: its text, metadata.source and
\* metadata.eTag.
Identity(B) ==
  BagMap(B, [c \in DOMAIN B |->
               [text |-> c.text, source |-> c.metadata.source, eTag |-> c.metadata.eTag]])

\* C30 (merge keeps the identity): a sidecar merge, for a sidecar event or
\* after an ingestion, leaves metadata.source and metadata.eTag of every
\* chunk as they were, whatever keys the attribute map holds.
C30_MergeKeepsIdentity ==
  [][\A i \in Invs :
       (/\ pc[i] \in {"ingestMetadata", "ingestMetadataAfter"}
        /\ pc'[i] # pc[i])
       => Identity(chunks') = Identity(chunks)]_vars

\* C31 (concurrent remove and create): when two concurrent invocations
\* have handled a created and a removed event for one address, both without
\* error, and no store operation is in flight any more, an inventory entry
\* of status "removed" for the address means that the store holds no chunk
\* of the address.
C31_RemovedMeansNoChunk ==
  \A a \in DocKeys :
    (/\ Quiet(1) /\ Quiet(2)
     /\ pending = EmptyBag
     /\ NoSidecar
     /\ ev[1].key = a /\ ev[2].key = a
     /\ out[1] \in {"success", "skipIngested", "removed"}
     /\ out[2] \in {"success", "skipIngested", "removed"}
     /\ inventory[a].status = "removed")
    => ChunksOf(chunks, a) = {}

\* The outcomes of an event that was handled without error.
NoErrorOutcomes == {"success", "skipIngested", "skipNonPdf", "removed", "metadata", "noMetadata"}

\* C32 (inventory and chunks agree): when events are handled one at a time,
\* none with an error and no store operation left in flight, every address
\* whose inventory entry has status "success" with eTag e has at least one
\* chunk in the store, and every chunk of the address carries eTag e.
C32_SuccessMeansChunks ==
  \A a \in DocKeys :
    (/\ Quiet(1)
     /\ pending = EmptyBag
     /\ \A b \in Keys : \A n \in DOMAIN hist[b] : hist[b][n].out \in NoErrorOutcomes
     /\ inventory[a].status = "success")
    => /\ ChunksOf(chunks, a) # {}
       /\ \A c \in ChunksOf(chunks, a) : c.metadata.eTag = inventory[a].eTag

\* C33 (sidecar present at ingestion): when handleEvent has returned from
\* the successful ingestion of a document whose sidecar holds an attribute
\* map, every chunk of the new version carries each attribute of the map,
\* as the sidecar holds it.
C33_SidecarAppliedAtIngestion ==
  \A a \in DocKeys :
    (/\ Quiet(1)
     /\ out[1] = "success"
     /\ ev[1].key = a
     /\ s3Object(metadataObjectKey(a)).kind = "attrs")
    => LET m == s3Object(metadataObjectKey(a)).metadataAttributes
       IN \A c \in DOMAIN chunks :
            (\E s \in 1 .. NSeg : c.text = pageContent(a, ev[1].eTag, s))
              => \A k \in DOMAIN m :
                   k \in DOMAIN c.metadata /\ c.metadata[k] = jsonValue(m[k])

\* The failures of an attempt that come after its insert was issued.
LateFailures == {"deleteMany", "markAsIngested", "ingestMetadata"}

\* C34 (no rollback): from the failure of the stale delete, of the
\* inventory write or of the follow-up merge up to the return of
\* handleEvent, no step of the handling changes the chunk collection: the
\* chunks the attempt has inserted and the chunks of the previous version
\* that are not deleted yet stay in the store.
C34_NoRollback ==
  [][\A i \in Invs :
       (/\ pc'[i] # pc[i]
        /\ \/ err'[i] \in LateFailures
           \/ err[i] \in LateFailures)
       => chunks' = chunks]_vars

C34_Witness ==
  \E a \in DocKeys :
    /\ Quiet(1)
    /\ out[1] = "failed"
    /\ ev[1].key = a
    /\ inventory[a] = ErrorEntry(ev[1].eTag, "error")
    /\ \A s \in 1 .. NSeg : CopiesIn(ChunkDoc(a, ev[1].eTag, s), chunks) = 1
    /\ \E c \in ChunksOf(chunks, a) : c.metadata.eTag # ev[1].eTag

\* A chunk without its metadata.
Content(B) == BagMap(B, [c \in DOMAIN B |-> [text |-> c.text, embedding |-> c.embedding]])

\* C35 (frame of a sidecar event): the handling of a created event for a
\* sidecar key issues no store operation, writes no inventory entry, adds
\* and removes no chunk, leaves text and embedding of every chunk as they
\* were, and leaves every chunk of another source than the target address
\* as it was.
C35_SidecarOnlyMetadata ==
  [][\A i \in Invs :
       (/\ pc[i] = "ingestMetadata"
        /\ pc'[i] # pc[i])
       => /\ inventory' = inventory
          /\ pending' = pending
          /\ BagCardinality(chunks') = BagCardinality(chunks)
          /\ Content(chunks') = Content(chunks)
          /\ OtherSources(chunks, targetObjectKey(ev[i].key)) \sqsubseteq chunks']_vars

C35_Witness ==
  /\ Quiet(1)
  /\ out[1] = "metadata"
  /\ ev[1].key \in SidecarKeys
  /\ \E c \in ChunksOf(chunks, targetObjectKey(ev[1].key)) : "topic" \in DOMAIN c.metadata
  /\ \E d \in DOMAIN chunks :
       d.metadata.source \in DocKeys \ {targetObjectKey(ev[1].key)}

\* C36 (error field): an inventory entry has an error field exactly when
\* its status is "fail".
C36_ErrorIffFail ==
  \A a \in Keys : ("error" \in DOMAIN inventory[a]) <=> (inventory[a].status = "fail")

\* A success or removed write has followed a failure.
C36_Witness ==
  \E a \in DocKeys :
    /\ Len(hist[a]) >= 2
    /\ hist[a][Len(hist[a]) - 1].out = "failed"
    /\ Last(hist[a]).out \in {"success", "removed"}
    /\ inventory[a].status \in {"success", "removed"}
    /\ "error" \notin DOMAIN inventory[a]

\* C37: within one process the retrieval handler builds its store client
\* and retriever at most once, whatever the number of calls and however
\* they overlap, and every call that has passed the initialisation goes on
\* with that one instance.
C37_OneRetriever ==
  /\ clients <= 1
  /\ \A j \in Callers : hpc[j] = "serve" => mdbHybridRetriever = 1

\* Invocation 1 is handling a removed event for an address whose last
\* handled event was that same removed event, handled to its end.
SecondRemoval(a) ==
  /\ pc[1] \in {"removeObject", "markAsRemoved"}
  /\ ev[1] = Removed(a)
  /\ hist[a] # <<>>
  /\ Last(hist[a]) = Outcome(Removed(a), "removed")

\* C38: handling the same removed event for an address a second time, right
\* after the first, changes neither the chunks in the store nor the status
\* and eTag of the address's inventory entry: they stay as the first
\* handling has left them.
C38_RepeatedRemoveNoOp ==
  [][\A a \in DocKeys :
       SecondRemoval(a) => /\ chunks' = chunks
                           /\ inventory'[a] = inventory[a]]_vars

\* The operations in flight that a step settles.
Settled == {p \in DOMAIN pending : CopiesIn(p, pending') < CopiesIn(p, pending)}

\* The addresses of the events a step belongs to: the event of the
\* invocation that moves, and the event that has issued the operation the
\* store settles.
StepAddrs ==
  {AddrOf(ev'[i]) : i \in {j \in Invs : pc'[j] # pc[j]}} \cup {p.o.key : p \in Settled}

\* C39 (frame of an event): a step taken for an event of address a, by the
\* handler or by the store for an operation the handler has issued, leaves
\* every chunk whose metadata.source is another address in the store as it
\* is, and leaves the inventory entry of every other address as it is.
C39_OtherAddressesUntouched ==
  [][/\ \A c \in DOMAIN chunks :
          c.metadata.source \notin StepAddrs => CopiesIn(c, chunks') >= CopiesIn(c, chunks)
     /\ \A b \in Keys \ StepAddrs : inventory'[b] = inventory[b]]_vars

\* a2.pdf has been ingested, its stale delete included, next to a1.pdf:
\* the chunks and the entry of a1.pdf are as they were at the start.
C39_Witness ==
  /\ Quiet(1)
  /\ pending = EmptyBag
  /\ ev[1] = Created(Key("a2", "pdf", FALSE), "e1")
  /\ out[1] \in {"success", "ingested"}
  /\ inventory[Key("a2", "pdf", FALSE)] = SuccessEntry("e1")
  /\ \A s \in 1 .. NSeg : CopiesIn(ChunkDoc(Key("a2", "pdf", FALSE), "e1", s), chunks) = 1
  /\ inventory[PriorKey] = SuccessEntry(PriorETag)
  /\ \A s \in 1 .. NSeg : CopiesIn(ChunkDoc(PriorKey, PriorETag, s), chunks) = 1

====
